---- MODULE Spec2Model ----
(***************************************************************************)
(* The benchmark harness of the VGS repository as a state machine.         *)
(*                                                                         *)
(*   benchmark-testing/simple_benchmark.py  run_benchmark_test: a pool of  *)
(*       worker threads, the progress monitor of the main thread, the      *)
(*       final metrics                                                     *)
(*   benchmark-testing/smoke_bench.py       the sequential request loop    *)
(*       and its summary                                                   *)
(*   benchmark-testing/locustfile.py        on_start and the tasks of      *)
(*       VGSUser                                                           *)
(*   benchmark-testing/metrics_server.py    the polling loop of the        *)
(*       exporter                                                          *)
(*                                                                         *)
(* One behaviour runs one of the four scripts (script); the variables of   *)
(* the other three keep their initial values.  Time is a discrete clock    *)
(* that an environment step advances at any moment, so every two reads of  *)
(* time.time() may see different values.  Latencies are whole clock ticks. *)
(***************************************************************************)
EXTENDS Integers, Sequences, FiniteSets, TLC

\* ------------------------------------------------------------------ bounds
MaxUsers == 2
MaxDuration == 1
MaxOps == 2

\* smoke_bench.py is sequential: its DURATION and its number of requests
\* are bounded apart from those of the worker pool.
MaxSmokeDuration == 2
MaxRequests == 3

Workers == 1..MaxUsers

VARIABLES
    script,               \* which script this behaviour runs
    clock,                \* time.time()
    \* ---- simple_benchmark.py, run_benchmark_test
    duration_seconds,     \* parameter
    num_users,            \* parameter
    end_time,             \* start_time + duration_seconds (start_time = 0)
    successful_requests,  \* shared counter
    failed_requests,      \* shared counter
    latencies,            \* shared list
    held,                 \* the lock objects that are currently acquired
    pc,                   \* worker -> position in worker()
    reg,                  \* worker -> the counter value it loaded for +=
    request_start,        \* worker -> local request_start
    request_time,         \* worker -> local request_time
    main_pc,              \* position of the main thread
    results,              \* the returned record, or the exception raised
    ops,                  \* history: operations the workers executed
    \* ---- smoke_bench.py
    DURATION,             \* DURATION_SECONDS
    ended,                \* start + DURATION (start = 0)
    ok,                   \* count of status-200 requests
    fail,                 \* count of the other requests
    lat,                  \* latency samples
    t0,                   \* start time of the request in flight
    smoke_pc,             \* position in the script
    summary,              \* the summary record
    replies,              \* history: what each request ended in
    \* ---- locustfile.py, VGSUser
    task,                 \* the task that runs
    attempt,              \* the loop variable of the retry loop
    locust_pc,            \* position in the task
    transaction_count,    \* self.transaction_count
    attempts,             \* history: per attempt, the reply, the outcome
                          \* marked, the delay slept and the rounds created
    \* ---- metrics_server.py
    gauges,               \* summary key -> the value of its gauge
    exporter_pc,          \* position in main()
    summary_file,         \* history: the summary file the last poll found
    set_gauges            \* history: the gauges the last poll has set

benchVars == <<duration_seconds, num_users, end_time, successful_requests,
               failed_requests, latencies, held, pc, reg, request_start,
               request_time, main_pc, results, ops>>

smokeVars == <<DURATION, ended, ok, fail, lat, t0, smoke_pc, summary, replies>>

locustVars == <<task, attempt, locust_pc, transaction_count, attempts>>

exporterVars == <<gauges, exporter_pc, summary_file, set_gauges>>

vars == <<script, clock, benchVars, smokeVars, locustVars, exporterVars>>

\* ------------------------------------------------------- pure helpers
RECURSIVE Insert(_, _)
Insert(x, s) ==
    IF s = <<>> THEN <<x>>
    ELSE IF x <= Head(s) THEN <<x>> \o s
    ELSE <<Head(s)>> \o Insert(x, Tail(s))

Unsorted(s) ==
    s

RECURSIVE Sorted(_)
\* sorted(list)
Sorted(s) ==
    IF s = <<>> THEN <<>> ELSE Insert(Head(s), Sorted(Tail(s)))

RECURSIVE Sum(_)
Sum(s) ==
    IF s = <<>> THEN 0 ELSE Head(s) + Sum(Tail(s))

\* round(x, 2) of the fraction num/den, in hundredths
Round2(num, den) ==
    (2 * 100 * num + den) \div (2 * den)

\* ------------------------------------------------- the loop condition
\* simple_benchmark.py line 72, smoke_bench.py line 22:
\* time.time() < end_time
BeforeDeadlineInclusive(now, deadline) ==
    now <= deadline

BeforeDeadline(now, deadline) ==
    now < deadline

\* -------------------------------------- simple_benchmark.py: the lock
\* `with threading.Lock():` constructs a new lock object each time the
\* statement runs; the object a worker acquires is its own.
LockObject(w) ==
    w

\* ------------------------------------ simple_benchmark.py: final metrics
\* statistics.quantiles(data, n=100)[i - 1], method 'exclusive', times 100
\* (the interpolation divides by n = 100); data has at least two points.
Quantile(data, i) ==
    LET sd    == Sorted(data)
        ld    == Len(sd)
        m     == ld + 1
        j0    == (i * m) \div 100
        j     == IF j0 < 1 THEN 1 ELSE IF j0 > ld - 1 THEN ld - 1 ELSE j0
        delta == i * m - j * 100
    IN  sd[j] * (100 - delta) + sd[j + 1] * delta

\* Python builds differ on one data point: before 3.13 quantiles raises
\* StatisticsError, from 3.13 on it returns the point for every cut.
PythonBuilds == {"raises_on_one_point", "repeats_one_point"}

\* Lines 118-124: the percentiles and the mean, in hundredths of a tick, or
\* the exception the block ends in.
LatencyStats(data, build) ==
    IF Len(data) = 0
    THEN [exception |-> "none", p50 |-> 0, p95 |-> 0, p99 |-> 0, avg |-> 0]
    ELSE IF Len(data) = 1
    THEN IF build = "raises_on_one_point"
         THEN [exception |-> "StatisticsError"]
         ELSE [exception |-> "none", p50 |-> 100 * data[1], p95 |-> 100 * data[1],
               p99 |-> 100 * data[1], avg |-> 100 * data[1]]
    ELSE [exception |-> "none",
          p50 |-> Quantile(data, 50), p95 |-> Quantile(data, 95),
          p99 |-> Quantile(data, 99), avg |-> Round2(Sum(data), Len(data))]

\* Lines 115-144: the results record, or the exception that ends the run.
\* Rates are percentages rounded to two places, kept in hundredths.
\* total_time is the elapsed wall time, kept beside the count it divides.
BenchResults(succ, failed, data, total_time, build) ==
    LET total_requests == succ + failed
        stats          == LatencyStats(data, build)
    IN  IF stats.exception # "none"
        THEN [status |-> "raised", exception |-> stats.exception]
        ELSE IF total_requests = 0
        THEN [status |-> "raised", exception |-> "ZeroDivisionError"]
        ELSE [status              |-> "returned",
              total_requests      |-> total_requests,
              successful_requests |-> succ,
              failed_requests     |-> failed,
              requests_per_second |-> <<succ, total_time>>,
              success_rate        |-> Round2(succ * 100, total_requests),
              error_rate          |-> Round2(failed * 100, total_requests),
              avg_latency_ms      |-> stats.avg,
              latency_p50_ms      |-> stats.p50,
              latency_p95_ms      |-> stats.p95,
              latency_p99_ms      |-> stats.p99,
              meets_20ms_target   |-> stats.p95 <= 2000,
              write_success_pct   |-> Round2(succ * 100, total_requests)]

\* ------------------------------------------------ smoke_bench.py: summary
\* What urlopen(req, timeout=2) ends in: a response with status 200, a
\* response with another status that urlopen returns, a response that urlopen
\* raises as HTTPError, or no response (URLError, timeout).
Replies == {"status_200", "status_other", "http_error", "transport_error"}

\* int(p * len(lat)) for p = percent/100.  The float product truncates to
\* floor(percent * n / 100) for 0.50, 0.95, 0.99 and every n below 200000.
PercentileIndexRoundedUp(n, percent) ==
    (percent * n + 99) \div 100

PercentileIndex(n, percent) ==
    (percent * n) \div 100

\* Whether sorted(lat)[int(p * len(lat))] is an index in range.
InRange(samples, percent) ==
    PercentileIndex(Len(samples), percent) < Len(samples)

\* Lines 44-46, 49: sorted(lat)[int(p * len(lat))] if lat else 0
Percentile(samples, percent) ==
    IF samples = <<>> THEN 0
    ELSE Sorted(samples)[PercentileIndex(Len(samples), percent) + 1]

\* num / den if den else 0, as the fraction <<numerator, denominator>>
RatioOrZero(num, den) ==
    IF den # 0 THEN <<num, den>> ELSE <<0, 1>>

\* Lines 37-50: the summary record, or the exception building it ends in.
SmokeSummary(n_ok, n_fail, samples, duration) ==
    IF samples # <<>> /\ \E percent \in {50, 95, 99} : ~InRange(samples, percent)
    THEN [status |-> "raised", exception |-> "IndexError"]
    ELSE [status                 |-> "written",
          rps                    |-> RatioOrZero(n_ok, duration),
          success_rate           |-> RatioOrZero(n_ok, n_ok + n_fail),
          error_rate             |-> RatioOrZero(n_fail, n_ok + n_fail),
          latency_p50_ms         |-> Percentile(samples, 50),
          latency_p95_ms         |-> Percentile(samples, 95),
          latency_p99_ms         |-> Percentile(samples, 99),
          write_success_pct      |-> RatioOrZero(n_ok * 100, n_ok + n_fail),
          round_retrieval_p95_ms |-> 0,
          http_request_p95_ms    |-> Percentile(samples, 95)]

\* ------------------------------------------- locustfile.py: retry loops
\* Line 49
PostMaxRetries == 3
\* Line 148
HealthMaxRetries == 2

\* Line 19
OnStartMaxRetries == 3

\* What one request of a task ends in.  post_transaction: status 200 with a
\* body whose "success" is true, status 200 with a body whose "success" is
\* false or absent, status 200 with a body response.json() cannot parse (it
\* raises), status 404, another status, or an exception of the client.
\* get_round: status 200, status 404, another status, or an exception.
\* health_check and on_start: status 200, another status, or an exception.
TaskReplies(t) ==
    IF t = "post_transaction"
    THEN {"200_success", "200_no_success", "200_bad_json", "404",
          "other_status", "exception"}
    ELSE IF t = "get_round"
    THEN {"200", "404", "other_status", "exception"}
    ELSE {"200", "other_status", "exception"}

OneMorePass(t) ==
    IF t = "post_transaction" THEN PostMaxRetries + 1
    ELSE IF t = "health_check" THEN HealthMaxRetries + 1
    ELSE IF t = "on_start" THEN OnStartMaxRetries + 1
    ELSE 2

\* Lines 19, 49, 148: the passes a task makes at most; get_round (lines
\* 120-143) has no loop
MaxRetriesOf(t) ==
    IF t = "post_transaction" THEN PostMaxRetries
    ELSE IF t = "health_check" THEN HealthMaxRetries
    ELSE IF t = "on_start" THEN OnStartMaxRetries
    ELSE 1

\* Lines 69, 79, 89: time.sleep(0.1 * (2 ** attempt)), in tenths of a second
Backoff(k) ==
    2 ^ k

BreaksNever(t, r) ==
    FALSE

\* Lines 24, 63, 154: the replies after which the retry loop is left by break
Breaks(t, r) ==
    IF t = "post_transaction" THEN r = "200_success" ELSE r = "200"

PostMarkEveryAttempt(r, k) ==
    IF r = "200_success" THEN "success"
    ELSE IF r \in {"200_no_success", "404", "other_status"} THEN "failure"
    ELSE "request_failure"

\* Lines 58-89: the outcome post_transaction marks for an attempt
PostMark(r, k) ==
    IF r = "200_success" THEN "success"
    ELSE IF k # PostMaxRetries - 1 THEN "none"
    ELSE IF r \in {"200_no_success", "404", "other_status"} THEN "failure"
    ELSE "request_failure"

\* Lines 58-89: the delay post_transaction sleeps after an attempt
PostSleep(r, k) ==
    IF r = "200_success" \/ r = "404" \/ k = PostMaxRetries - 1 THEN 0
    ELSE Backoff(k)

\* Lines 151-169: the outcome health_check marks for an attempt
HealthMark(r, k) ==
    IF r = "200" THEN "success"
    ELSE IF k # HealthMaxRetries - 1 THEN "none"
    ELSE IF r = "other_status" THEN "failure"
    ELSE "request_failure"

\* Lines 159, 169: time.sleep(0.5), in tenths of a second
HealthSleep(r, k) ==
    IF r = "200" \/ k = HealthMaxRetries - 1 THEN 0 ELSE 5

GetRoundMark404Fails(r) ==
    IF r = "200" THEN "success"
    ELSE IF r \in {"404", "other_status"} THEN "failure"
    ELSE "request_failure"

\* Lines 127-143: the outcome get_round marks for its request
GetRoundMark(r) ==
    IF r \in {"200", "404"} THEN "success"
    ELSE IF r = "other_status" THEN "failure"
    ELSE "request_failure"

\* Lines 21-32: the outcome on_start marks for a probe; only the exception
\* of the last probe is reported, a status other than 200 never is
OnStartMark(r, k) ==
    IF r = "exception" /\ k = OnStartMaxRetries - 1 THEN "request_failure"
    ELSE "none"

\* Line 34: time.sleep(1), in tenths of a second, in the exception handler
\* of every probe, the last one included
OnStartSleep(r, k) ==
    IF r = "exception" THEN 10 ELSE 0

\* ------------------------------------------- metrics_server.py: a poll
\* Lines 35-45: the keys of the summary whose gauges update_metrics sets, in
\* the order of the mapping
MetricKeys ==
    <<"rps", "success_rate", "error_rate", "latency_p50_ms", "latency_p95_ms",
      "latency_p99_ms", "write_success_pct", "round_retrieval_p95_ms",
      "http_request_p95_ms">>

Keys ==
    {MetricKeys[i] : i \in 1..Len(MetricKeys)}

\* What a key of a JSON object holds: nothing, null, the number 0, a number
\* that is not 0, a string that float() parses, a string that it does not.
JsonValues ==
    {"absent", "null", "zero", "number", "numeric_string", "text"}

\* What is at SUMMARY_PATH when a poll opens it: no file, a file that is not
\* valid JSON, a file whose JSON value is not an object (an array, null, a
\* number), or an object.  An object is given by the value of one key and
\* the value of every other key.
SummaryFiles ==
    {[kind |-> k, key |-> "rps", value |-> "absent", rest |-> "absent"] :
        k \in {"missing", "invalid_json", "not_object"}}
    \cup [kind : {"object"}, key : Keys, value : JsonValues,
          rest : {"absent", "number"}]

\* Lines 26-31: json.load of the file, or {} when anything raises
load_summary(file) ==
    IF file.kind \in {"missing", "invalid_json"}
    THEN [kind |-> "object", key |-> "rps", value |-> "absent", rest |-> "absent"]
    ELSE file

\* Line 47: data.get(key, 0.0) of an object
Get(data, key) ==
    IF key = data.key THEN data.value ELSE data.rest

\* Line 47: float(v or 0.0) raises ValueError for a string that is not a
\* number
FloatRaises(v) ==
    v = "text"

\* Line 47: float(v or 0.0); absent, null and 0 give 0.0
Float(v) ==
    IF v \in {"number", "numeric_string"} THEN 3 ELSE 0

\* Lines 46-48: the position in the mapping at which update_metrics raises,
\* 0 when it does not.  data.get raises AttributeError at the first key when
\* data is not an object.
RaisesAt(data) ==
    IF data.kind # "object" THEN 1
    ELSE LET bad == {i \in 1..Len(MetricKeys) :
                        FloatRaises(Get(data, MetricKeys[i]))}
         IN  IF bad = {} THEN 0
             ELSE CHOOSE i \in bad : \A j \in bad : i <= j

\* --------------------------------------------------------------- Init
LocustIdle ==
    /\ task = "none"
    /\ attempt = 0
    /\ locust_pc = "idle"
    /\ transaction_count = 0
    /\ attempts = <<>>

\* A method of VGSUser is called: lines 12-19, 37-50, 121-125, 146-149
LocustInit ==
    /\ task \in {"on_start", "post_transaction", "get_round", "health_check"}
    /\ attempt = 0
    /\ locust_pc = "retry_loop"
    /\ transaction_count = 0
    /\ attempts = <<>>

SmokeIdle ==
    /\ DURATION = 0
    /\ ended = 0
    /\ ok = 0
    /\ fail = 0
    /\ lat = <<>>
    /\ t0 = 0
    /\ smoke_pc = "idle"
    /\ summary = [status |-> "none"]
    /\ replies = <<>>

\* Lines 4-11
SmokeInit ==
    /\ DURATION \in 0..MaxSmokeDuration
    /\ ended = DURATION
    /\ ok = 0
    /\ fail = 0
    /\ lat = <<>>
    /\ t0 = 0
    /\ smoke_pc = "loop"
    /\ summary = [status |-> "none"]
    /\ replies = <<>>

BenchIdle ==
    /\ duration_seconds = 0
    /\ num_users = 0
    /\ end_time = 0
    /\ successful_requests = 0
    /\ failed_requests = 0
    /\ latencies = <<>>
    /\ held = {}
    /\ pc = [w \in Workers |-> "unused"]
    /\ reg = [w \in Workers |-> 0]
    /\ request_start = [w \in Workers |-> 0]
    /\ request_time = [w \in Workers |-> 0]
    /\ main_pc = "idle"
    /\ results = [status |-> "none"]
    /\ ops = 0

\* Lines 45-100: the parameters, the metrics at zero, the deadline, and the
\* num_users workers submitted to the pool.  No line looks at the parameters:
\* a duration_seconds of 0 (or less) gives a deadline that has passed, and a
\* num_users of 0 (or less) makes ThreadPoolExecutor(max_workers=num_users) of
\* line 99 raise ValueError, which leaves run_benchmark_test.
BenchInit ==
    /\ duration_seconds \in 0..MaxDuration
    /\ num_users \in 0..MaxUsers
    /\ end_time = duration_seconds
    /\ successful_requests = 0
    /\ failed_requests = 0
    /\ latencies = <<>>
    /\ held = {}
    /\ pc = [w \in Workers |-> IF w <= num_users THEN "loop" ELSE "unused"]
    /\ reg = [w \in Workers |-> 0]
    /\ request_start = [w \in Workers |-> 0]
    /\ request_time = [w \in Workers |-> 0]
    /\ main_pc = IF num_users = 0 THEN "rejected" ELSE "monitor"
    /\ results = IF num_users = 0
                 THEN [status |-> "rejected", exception |-> "ValueError"]
                 ELSE [status |-> "none"]
    /\ ops = 0

ExporterIdle ==
    /\ gauges = [k \in Keys |-> 0]
    /\ exporter_pc = "idle"
    /\ summary_file = [kind |-> "none", key |-> "rps", value |-> "absent",
                       rest |-> "absent"]
    /\ set_gauges = {}

\* Lines 13-23, 52-53: the nine gauges, each at 0, and main() at the head of
\* its loop
ExporterInit ==
    /\ gauges = [k \in Keys |-> 0]
    /\ exporter_pc = "poll"
    /\ summary_file = [kind |-> "none", key |-> "rps", value |-> "absent",
                       rest |-> "absent"]
    /\ set_gauges = {}

Init ==
    /\ clock = 0
    /\ script \in {"simple_benchmark", "smoke_bench", "locustfile",
                   "metrics_server"}
    /\ IF script = "metrics_server" THEN ExporterInit ELSE ExporterIdle
    /\ IF script = "simple_benchmark" THEN BenchInit ELSE BenchIdle
    /\ IF script = "smoke_bench" THEN SmokeInit ELSE SmokeIdle
    /\ IF script = "locustfile" THEN LocustInit ELSE LocustIdle

\* ------------------------------------------------------------ the clock
\* The deadline of the script that runs.
Deadline ==
    IF script = "simple_benchmark" THEN end_time ELSE ended

\* Time passes.  The clock is followed to one tick past the deadline, so
\* that an operation in flight at the deadline can complete after it.
Tick ==
    /\ script \in {"simple_benchmark", "smoke_bench"}
    /\ clock < Deadline + 1
    /\ clock' = clock + 1
    /\ UNCHANGED <<script, benchVars, smokeVars, locustVars, exporterVars>>

\* --------------------------------------- simple_benchmark.py: worker()
\* Line 72: while time.time() < end_time.  The number of operations of a run
\* is bounded by cap: at the bound a worker waits for the deadline.
WorkerLoopUpTo(w, cap) ==
    /\ script = "simple_benchmark"
    /\ pc[w] = "loop"
    /\ IF BeforeDeadline(clock, end_time)
       THEN /\ ops < cap
            /\ pc' = [pc EXCEPT ![w] = "start"]
       ELSE pc' = [pc EXCEPT ![w] = "done"]
    /\ UNCHANGED <<smokeVars, locustVars, exporterVars>>
    /\ UNCHANGED <<script, clock, duration_seconds, num_users, end_time,
                   successful_requests, failed_requests, latencies, held, reg,
                   request_start, request_time, main_pc, results, ops>>

\* Line 72, in a run of at most MaxOps operations
WorkerLoop(w) ==
    WorkerLoopUpTo(w, MaxOps)

\* Lines 75-80: the test data, then request_start = time.time()
WorkerStart(w) ==
    /\ script = "simple_benchmark"
    /\ pc[w] = "start"
    /\ request_start' = [request_start EXCEPT ![w] = clock]
    /\ ops' = ops + 1
    /\ pc' = [pc EXCEPT ![w] = "call"]
    /\ UNCHANGED <<smokeVars, locustVars, exporterVars>>
    /\ UNCHANGED <<script, clock, duration_seconds, num_users, end_time,
                   successful_requests, failed_requests, latencies, held, reg,
                   request_time, main_pc, results>>

\* Lines 81-82: the service returns; request_time = time.time() - request_start
WorkerCallReturns(w) ==
    /\ script = "simple_benchmark"
    /\ pc[w] = "call"
    /\ request_time' = [request_time EXCEPT ![w] = clock - request_start[w]]
    /\ request_start' = [request_start EXCEPT ![w] = 0]
    /\ pc' = [pc EXCEPT ![w] = "enter_s"]
    /\ UNCHANGED <<smokeVars, locustVars, exporterVars>>
    /\ UNCHANGED <<script, clock, duration_seconds, num_users, end_time,
                   successful_requests, failed_requests, latencies, held, reg,
                   main_pc, results, ops>>

\* Lines 25, 92: the service raises; control goes to the except clause
WorkerCallRaises(w) ==
    /\ script = "simple_benchmark"
    /\ pc[w] = "call"
    /\ request_start' = [request_start EXCEPT ![w] = 0]
    /\ pc' = [pc EXCEPT ![w] = "enter_f"]
    /\ UNCHANGED <<smokeVars, locustVars, exporterVars>>
    /\ UNCHANGED <<script, clock, duration_seconds, num_users, end_time,
                   successful_requests, failed_requests, latencies, held, reg,
                   request_time, main_pc, results, ops>>

\* Lines 85-86, 93-94: with threading.Lock(): the lock object is acquired,
\* then `counter += 1` loads the counter
WorkerEnter(w) ==
    /\ script = "simple_benchmark"
    /\ pc[w] \in {"enter_s", "enter_f"}
    /\ LockObject(w) \notin held
    /\ held' = held \cup {LockObject(w)}
    /\ reg' = [reg EXCEPT ![w] = IF pc[w] = "enter_s" THEN successful_requests
                                 ELSE failed_requests]
    /\ pc' = [pc EXCEPT ![w] = IF pc[w] = "enter_s" THEN "write_s" ELSE "write_f"]
    /\ UNCHANGED <<smokeVars, locustVars, exporterVars>>
    /\ UNCHANGED <<script, clock, duration_seconds, num_users, end_time,
                   successful_requests, failed_requests, latencies,
                   request_start, request_time, main_pc, results, ops>>

\* Line 86: the store of `successful_requests += 1`
WorkerWriteSuccess(w) ==
    /\ script = "simple_benchmark"
    /\ pc[w] = "write_s"
    /\ successful_requests' = reg[w] + 1
    /\ reg' = [reg EXCEPT ![w] = 0]
    /\ pc' = [pc EXCEPT ![w] = "append"]
    /\ UNCHANGED <<smokeVars, locustVars, exporterVars>>
    /\ UNCHANGED <<script, clock, duration_seconds, num_users, end_time,
                   failed_requests, latencies, held,
                   request_start, request_time, main_pc, results, ops>>

\* Lines 87-90: latencies.append(request_time), the lock is released, the
\* worker sleeps and goes back to the loop test
WorkerAppend(w) ==
    /\ script = "simple_benchmark"
    /\ pc[w] = "append"
    /\ latencies' = Append(latencies, request_time[w])
    /\ held' = held \ {LockObject(w)}
    /\ request_time' = [request_time EXCEPT ![w] = 0]
    /\ pc' = [pc EXCEPT ![w] = "loop"]
    /\ UNCHANGED <<smokeVars, locustVars, exporterVars>>
    /\ UNCHANGED <<script, clock, duration_seconds, num_users, end_time,
                   successful_requests, failed_requests, reg, request_start,
                   main_pc, results, ops>>

\* Lines 94-95: the store of `failed_requests += 1`, the lock is released,
\* the message is printed, back to the loop test
WorkerWriteFailure(w) ==
    /\ script = "simple_benchmark"
    /\ pc[w] = "write_f"
    /\ failed_requests' = reg[w] + 1
    /\ reg' = [reg EXCEPT ![w] = 0]
    /\ held' = held \ {LockObject(w)}
    /\ pc' = [pc EXCEPT ![w] = "loop"]
    /\ UNCHANGED <<smokeVars, locustVars, exporterVars>>
    /\ UNCHANGED <<script, clock, duration_seconds, num_users, end_time,
                   successful_requests, latencies, request_start,
                   request_time, main_pc, results, ops>>

\* ------------------------------- simple_benchmark.py: the main thread
\* Lines 103-108: the progress monitor prints while the deadline is ahead
\* (no state changes) and leaves its loop once it has passed
MainMonitor ==
    /\ script = "simple_benchmark"
    /\ main_pc = "monitor"
    /\ main_pc' = IF clock < end_time THEN "monitor" ELSE "join"
    /\ UNCHANGED <<smokeVars, locustVars, exporterVars>>
    /\ UNCHANGED <<script, clock, duration_seconds, num_users, end_time,
                   successful_requests, failed_requests, latencies, held, pc,
                   reg, request_start, request_time, results, ops>>

WorkersNotAwaited ==
    TRUE

\* Lines 111-112: future.result() returns once the worker has returned; the
\* exit of the with-block of line 99 waits for the workers as well
WorkersReturned ==
    \A w \in Workers : pc[w] \in {"done", "unused"}

\* Lines 111-112: future.result() for every worker
MainJoin ==
    /\ script = "simple_benchmark"
    /\ main_pc = "join"
    /\ WorkersReturned
    /\ main_pc' = "summary"
    /\ UNCHANGED <<smokeVars, locustVars, exporterVars>>
    /\ UNCHANGED <<script, clock, duration_seconds, num_users, end_time,
                   successful_requests, failed_requests, latencies, held, pc,
                   reg, request_start, request_time, results, ops>>

\* Lines 115-166: the final metrics and the results record
MainSummary ==
    /\ script = "simple_benchmark"
    /\ main_pc = "summary"
    /\ \E build \in PythonBuilds :
          results' = BenchResults(successful_requests, failed_requests,
                                  latencies, clock, build)
    /\ main_pc' = results'.status
    /\ UNCHANGED <<smokeVars, locustVars, exporterVars>>
    /\ UNCHANGED <<script, clock, duration_seconds, num_users, end_time,
                   successful_requests, failed_requests, latencies, held, pc,
                   reg, request_start, request_time, ops>>

\* ------------------------------------------- smoke_bench.py: the loop
\* Line 22: while time.time() < ended.  The number of requests of a run is
\* bounded by MaxRequests: at the bound the loop waits for the deadline.
SmokeLoop ==
    /\ script = "smoke_bench"
    /\ smoke_pc = "loop"
    /\ IF BeforeDeadline(clock, ended)
       THEN /\ Len(replies) < MaxRequests
            /\ smoke_pc' = "t0"
       ELSE smoke_pc' = "summary"
    /\ UNCHANGED <<locustVars, exporterVars>>
    /\ UNCHANGED <<script, clock, benchVars, DURATION, ended, ok, fail, lat, t0,
                   summary, replies>>

\* Lines 23-26: the payload and the request object, then t0 = time.time()
SmokeStart ==
    /\ script = "smoke_bench"
    /\ smoke_pc = "t0"
    /\ t0' = clock
    /\ smoke_pc' = "urlopen"
    /\ UNCHANGED <<locustVars, exporterVars>>
    /\ UNCHANGED <<script, clock, benchVars, DURATION, ended, ok, fail, lat,
                   summary, replies>>

\* Lines 27-35: urlopen ends in reply r, the request is counted, and the
\* latency is appended
SmokeRequest(r) ==
    /\ script = "smoke_bench"
    /\ smoke_pc = "urlopen"
    /\ ok' = IF r = "status_200" THEN ok + 1 ELSE ok
    /\ fail' = IF r = "status_200" THEN fail ELSE fail + 1
    /\ lat' = Append(lat, clock - t0)
    /\ replies' = Append(replies, r)
    /\ t0' = 0
    /\ smoke_pc' = "loop"
    /\ UNCHANGED <<locustVars, exporterVars>>
    /\ UNCHANGED <<script, clock, benchVars, DURATION, ended, summary>>

\* Lines 37-54: the summary is built and written
SmokeSummarize ==
    /\ script = "smoke_bench"
    /\ smoke_pc = "summary"
    /\ summary' = SmokeSummary(ok, fail, lat, DURATION)
    /\ smoke_pc' = "done"
    /\ UNCHANGED <<locustVars, exporterVars>>
    /\ UNCHANGED <<script, clock, benchVars, DURATION, ended, ok, fail, lat, t0,
                   replies>>

\* ------------------------------------------ locustfile.py: the tasks
\* Lines 50-89: one pass of the retry loop of post_transaction; its request
\* ends in reply r.  Every exception of the pass is caught by the handler of
\* line 80, so the outer handler of lines 91-97 is not reached from the loop.
PostAttempt(r) ==
    /\ script = "locustfile"
    /\ task = "post_transaction"
    /\ locust_pc = "retry_loop"
    /\ r \in TaskReplies(task)
    /\ attempts' = Append(attempts,
                          [reply         |-> r,
                           mark          |-> PostMark(r, attempt),
                           slept         |-> PostSleep(r, attempt),
                           create_rounds |-> IF r = "404" THEN 1 ELSE 0])
    /\ transaction_count' = IF r = "200_success" THEN transaction_count + 1
                            ELSE transaction_count
    /\ IF Breaks(task, r) \/ attempt + 1 >= MaxRetriesOf(task)
       THEN /\ locust_pc' = "done"
            /\ UNCHANGED attempt
       ELSE /\ attempt' = attempt + 1
            /\ UNCHANGED locust_pc
    /\ UNCHANGED <<script, clock, benchVars, smokeVars, exporterVars, task>>

\* Lines 149-169: one pass of the retry loop of health_check; its probe ends
\* in reply r
HealthAttempt(r) ==
    /\ script = "locustfile"
    /\ task = "health_check"
    /\ locust_pc = "retry_loop"
    /\ r \in TaskReplies(task)
    /\ attempts' = Append(attempts,
                          [reply         |-> r,
                           mark          |-> HealthMark(r, attempt),
                           slept         |-> HealthSleep(r, attempt),
                           create_rounds |-> 0])
    /\ IF Breaks(task, r) \/ attempt + 1 >= MaxRetriesOf(task)
       THEN /\ locust_pc' = "done"
            /\ UNCHANGED attempt
       ELSE /\ attempt' = attempt + 1
            /\ UNCHANGED locust_pc
    /\ UNCHANGED <<script, clock, benchVars, smokeVars, exporterVars, task, transaction_count>>

\* Lines 126-143: get_round sends one request, which ends in reply r, and
\* returns
GetRound(r) ==
    /\ script = "locustfile"
    /\ task = "get_round"
    /\ locust_pc = "retry_loop"
    /\ r \in TaskReplies(task)
    /\ attempts' = Append(attempts,
                          [reply         |-> r,
                           mark          |-> GetRoundMark(r),
                           slept         |-> 0,
                           create_rounds |-> 0])
    /\ locust_pc' = "done"
    /\ UNCHANGED <<script, clock, benchVars, smokeVars, exporterVars, task, attempt,
                   transaction_count>>

\* Lines 20-34: one pass of the warm-up loop of on_start; its probe ends in
\* reply r.  After the loop on_start returns.
OnStartAttempt(r) ==
    /\ script = "locustfile"
    /\ task = "on_start"
    /\ locust_pc = "retry_loop"
    /\ r \in TaskReplies(task)
    /\ attempts' = Append(attempts,
                          [reply         |-> r,
                           mark          |-> OnStartMark(r, attempt),
                           slept         |-> OnStartSleep(r, attempt),
                           create_rounds |-> 0])
    /\ IF Breaks(task, r) \/ attempt + 1 >= MaxRetriesOf(task)
       THEN /\ locust_pc' = "done"
            /\ UNCHANGED attempt
       ELSE /\ attempt' = attempt + 1
            /\ UNCHANGED locust_pc
    /\ UNCHANGED <<script, clock, benchVars, smokeVars, exporterVars, task, transaction_count>>

\* Lines 53-56: one pass of the loop of main(): load_summary, update_metrics
\* and time.sleep(5), with the file the pass finds.  update_metrics sets the
\* gauges in the order of the mapping; when it raises, the gauges after that
\* position keep their values and the exception leaves main().
Poll(file) ==
    /\ script = "metrics_server"
    /\ exporter_pc = "poll"
    /\ summary_file' = file
    /\ LET data == load_summary(file)
           stop == RaisesAt(data)
           done == IF stop = 0 THEN Keys
                   ELSE {MetricKeys[i] : i \in 1..(stop - 1)}
       IN  /\ gauges' = [k \in Keys |->
                            IF k \in done THEN Float(Get(data, k)) ELSE gauges[k]]
           /\ set_gauges' = done
           /\ exporter_pc' = IF stop = 0 THEN "poll" ELSE "raised"
    /\ UNCHANGED <<script, clock, benchVars, smokeVars, locustVars>>

Next ==
    \/ Tick
    \/ \E w \in Workers : WorkerLoop(w)
    \/ \E w \in Workers : WorkerStart(w)
    \/ \E w \in Workers : WorkerCallReturns(w)
    \/ \E w \in Workers : WorkerCallRaises(w)
    \/ \E w \in Workers : WorkerEnter(w)
    \/ \E w \in Workers : WorkerWriteSuccess(w)
    \/ \E w \in Workers : WorkerAppend(w)
    \/ \E w \in Workers : WorkerWriteFailure(w)
    \/ MainMonitor
    \/ MainJoin
    \/ MainSummary
    \/ SmokeLoop
    \/ SmokeStart
    \/ \E r \in Replies : SmokeRequest(r)
    \/ SmokeSummarize
    \/ \E r \in TaskReplies("post_transaction") : PostAttempt(r)
    \/ \E r \in TaskReplies("health_check") : HealthAttempt(r)
    \/ \E r \in TaskReplies("get_round") : GetRound(r)
    \/ \E r \in TaskReplies("on_start") : OnStartAttempt(r)
    \/ \E file \in SummaryFiles : Poll(file)

Spec == Init /\ [][Next]_vars

\* ----------------------- run_benchmark_test alone, with one operation more
\* A counter is seen to step back only after three increments of it have
\* begun, so the runs of run_benchmark_test are followed here to MaxOps + 1
\* operations.
InitBench ==
    /\ clock = 0
    /\ script = "simple_benchmark"
    /\ BenchInit
    /\ SmokeIdle
    /\ LocustIdle
    /\ ExporterIdle

NextBench ==
    \/ Tick
    \/ \E w \in Workers : WorkerLoopUpTo(w, MaxOps + 1)
    \/ \E w \in Workers : WorkerStart(w)
    \/ \E w \in Workers : WorkerCallReturns(w)
    \/ \E w \in Workers : WorkerCallRaises(w)
    \/ \E w \in Workers : WorkerEnter(w)
    \/ \E w \in Workers : WorkerWriteSuccess(w)
    \/ \E w \in Workers : WorkerAppend(w)
    \/ \E w \in Workers : WorkerWriteFailure(w)
    \/ MainMonitor
    \/ MainJoin
    \/ MainSummary

SpecBench == InitBench /\ [][NextBench]_vars

\* ------------------------------------------ the runs that are not held up
\* The steps of worker w of run_benchmark_test
Worker(w) ==
    \/ WorkerLoop(w)
    \/ WorkerStart(w)
    \/ WorkerCallReturns(w)
    \/ WorkerCallRaises(w)
    \/ WorkerEnter(w)
    \/ WorkerWriteSuccess(w)
    \/ WorkerAppend(w)
    \/ WorkerWriteFailure(w)

\* The steps of the main thread of run_benchmark_test
Main ==
    MainMonitor \/ MainJoin \/ MainSummary

\* The steps of smoke_bench
Smoke ==
    \/ SmokeLoop
    \/ SmokeStart
    \/ \E r \in Replies : SmokeRequest(r)
    \/ SmokeSummarize

\* The clock keeps advancing; every thread that can take a step takes one in
\* the end, so every call of the target, every request and every sleep
\* finishes.  The threads of the pool and the main thread are scheduled by
\* the operating system, each on its own.
Fairness ==
    /\ WF_vars(Tick)
    /\ \A w \in Workers : WF_vars(Worker(w))
    /\ WF_vars(Main)
    /\ WF_vars(Smoke)

LiveSpec == Init /\ [][Next]_vars /\ Fairness

\* ======================================================== the claims
Finished ==
    script = "simple_benchmark" /\ \A w \in Workers : pc[w] \in {"done", "unused"}

InUpdateBlock ==
    {w \in Workers : pc[w] \in {"write_s", "append", "write_f"}}

\* C1: when the run of run_benchmark_test ends, successful_requests +
\* failed_requests equals the number of operations the workers executed.
C1_EveryOperationCounted ==
    Finished => successful_requests + failed_requests = ops

\* C2: at no time are two workers inside the lock-guarded update block.
C2_UpdatesSerialized ==
    Cardinality(InUpdateBlock) <= 1

\* C3 as stated: no operation of a worker of run_benchmark_test, and no
\* request of smoke_bench, has a start time at or after the deadline.
C3_NoStartAtOrAfterDeadline ==
    /\ \A w \in Workers : pc[w] = "call" => request_start[w] < end_time
    /\ smoke_pc = "urlopen" => t0 < ended

\* C3 as amended: a worker of run_benchmark_test, and the loop of smoke_bench,
\* goes on to a new operation only in a step of its loop test at which the clock
\* is before the deadline.
C3_StartsOnlyAfterTestBeforeDeadline ==
    [][/\ \A w \in Workers :
             (pc[w] = "loop" /\ pc'[w] = "start") => clock < end_time
       /\ (smoke_pc = "loop" /\ smoke_pc' = "t0") => clock < ended]_vars

\* An operation whose loop test passed before the deadline has a start time
\* at the deadline, and is still in flight after it.
C3_Witness ==
    \E w \in Workers :
        /\ pc[w] = "call"
        /\ end_time > 0
        /\ request_start[w] = end_time
        /\ clock > end_time

HasResponse(r) ==
    r # "transport_error"

\* C4: in smoke_bench a request that ends in a transport error adds no latency
\* sample: len(lat) is the number of requests that received an HTTP response,
\* and when every request failed at transport level latency_p50_ms is 0.
C4_HardFailureAddsNoSample ==
    /\ Len(lat) = Cardinality({i \in 1..Len(replies) : HasResponse(replies[i])})
    /\ (smoke_pc = "done" /\ \A i \in 1..Len(replies) : ~HasResponse(replies[i]))
          => (summary.status = "written" /\ summary.latency_p50_ms = 0)

\* C5: a run that ends with zero operations reports success_rate = 0 and
\* error_rate = 0 and no division fault, in run_benchmark_test and in
\* smoke_bench.
C5_ZeroTotalReportsZeroRates ==
    /\ (main_pc \in {"returned", "raised"} /\ successful_requests + failed_requests = 0)
          => /\ results.status = "returned"
             /\ results.success_rate = 0
             /\ results.error_rate = 0
    /\ (smoke_pc = "done" /\ ok + fail = 0)
          => /\ summary.status = "written"
             /\ summary.success_rate[1] = 0
             /\ summary.error_rate[1] = 0

\* v is the element at 0-based index k of the samples in ascending order:
\* at most k samples are below v and more than k are at most v
IsRankSample(samples, k, v) ==
    /\ \E i \in 1..Len(samples) : samples[i] = v
    /\ Cardinality({i \in 1..Len(samples) : samples[i] < v}) <= k
    /\ Cardinality({i \in 1..Len(samples) : samples[i] <= v}) > k

\* C6: for a non-empty list of n samples the percentile smoke_bench reports
\* for p in {0.50, 0.95, 0.99} is the element at 0-based index floor(p * n) of
\* the sorted samples, the index is below n, and for the empty list the
\* percentile is 0; no error is raised.
C6_PercentileIsFloorRankSample ==
    smoke_pc = "done" =>
        /\ summary.status = "written"
        /\ lat = <<>> =>
              /\ summary.latency_p50_ms = 0
              /\ summary.latency_p95_ms = 0
              /\ summary.latency_p99_ms = 0
        /\ lat # <<>> =>
              /\ (99 * Len(lat)) \div 100 < Len(lat)
              /\ IsRankSample(lat, (50 * Len(lat)) \div 100, summary.latency_p50_ms)
              /\ IsRankSample(lat, (95 * Len(lat)) \div 100, summary.latency_p95_ms)
              /\ IsRankSample(lat, (99 * Len(lat)) \div 100, summary.latency_p99_ms)

\* Three samples recorded out of order; the median and the 95th percentile
\* are different samples.
C6_Witness ==
    /\ smoke_pc = "done"
    /\ Len(lat) = 3
    /\ lat[1] > lat[2]
    /\ summary.status = "written"
    /\ summary.latency_p50_ms < summary.latency_p95_ms

\* C7: the reported percentiles are monotonic, latency_p50_ms <=
\* latency_p95_ms <= latency_p99_ms, in the summary of smoke_bench and in the
\* results of run_benchmark_test, for every list of recorded latencies.
C7_PercentilesMonotonic ==
    /\ (smoke_pc = "done" /\ summary.status = "written")
          => /\ summary.latency_p50_ms <= summary.latency_p95_ms
             /\ summary.latency_p95_ms <= summary.latency_p99_ms
    /\ main_pc = "returned"
          => /\ results.latency_p50_ms <= results.latency_p95_ms
             /\ results.latency_p95_ms <= results.latency_p99_ms

\* run_benchmark_test returned percentiles of two or more latencies that
\* were appended out of order and differ.
C7_Witness ==
    /\ main_pc = "returned"
    /\ Len(latencies) >= 2
    /\ latencies[1] > latencies[2]
    /\ results.latency_p50_ms < results.latency_p95_ms

Succeeded(r) ==
    r \in {"200_success", "200"}

\* C8: post_transaction sends at most 3 transaction requests, health_check at
\* most 2 probes, and no attempt is made after an attempt that succeeded.
C8_AttemptsBounded ==
    /\ task = "post_transaction" => Len(attempts) <= 3
    /\ task = "health_check" => Len(attempts) <= 2
    /\ \A i \in 1..Len(attempts) :
          Succeeded(attempts[i].reply) => i = Len(attempts)

\* post_transaction succeeded on its third request after two failed ones.
C8_Witness ==
    /\ task = "post_transaction"
    /\ locust_pc = "done"
    /\ Len(attempts) = 3
    /\ attempts[1].reply = "exception"
    /\ attempts[2].reply = "other_status"
    /\ attempts[3].reply = "200_success"

\* C9: in post_transaction the delay slept before the attempt with loop index
\* k >= 1 is 0.1 * 2^(k-1) seconds (2^(k-1) tenths), whichever kind of failure
\* the attempt before it was.
C9_BackoffBeforeEveryRetry ==
    task = "post_transaction" =>
        \A k \in 1..(Len(attempts) - 1) : attempts[k].slept = 2 ^ (k - 1)

Marked ==
    {i \in 1..Len(attempts) : attempts[i].mark # "none"}

\* C10: one invocation of post_transaction, and of health_check, records
\* exactly one explicit outcome, a success mark or a failure mark or a
\* request_failure event, on its last attempt, and a failure only on the final
\* attempt when the retries are exhausted.
C10_ExactlyOneOutcome ==
    task \in {"post_transaction", "health_check"} =>
        /\ Cardinality(Marked) <= 1
        /\ locust_pc = "done" => Marked = {Len(attempts)}
        /\ \A i \in Marked :
              attempts[i].mark \in {"failure", "request_failure"}
                 => /\ ~Succeeded(attempts[i].reply)
                    /\ i = IF task = "post_transaction" THEN 3 ELSE 2
        /\ \A i \in Marked :
              attempts[i].mark = "success" => Succeeded(attempts[i].reply)

\* post_transaction failed three times; the failure is marked once, on the
\* third attempt.
C10_Witness ==
    /\ task = "post_transaction"
    /\ locust_pc = "done"
    /\ Len(attempts) = 3
    /\ attempts[1].mark = "none"
    /\ attempts[2].mark = "none"
    /\ attempts[3].mark = "failure"

\* C11: get_round makes a single attempt; a 404 response is marked success,
\* never failure, and a failure is recorded only for a status other than 200
\* and 404 (failure mark) or for an exception of the client (request_failure).
C11_GetRound404IsSuccess ==
    task = "get_round" =>
        /\ Len(attempts) <= 1
        /\ locust_pc = "done" => Len(attempts) = 1
        /\ \A i \in 1..Len(attempts) :
              /\ attempts[i].reply = "404" => attempts[i].mark = "success"
              /\ attempts[i].mark = "failure"
                    <=> attempts[i].reply = "other_status"
              /\ attempts[i].mark = "request_failure"
                    <=> attempts[i].reply = "exception"
              /\ attempts[i].mark \in {"success", "failure", "request_failure"}

\* get_round returned after a 404 response, which it marked success.
C11_Witness ==
    /\ task = "get_round"
    /\ locust_pc = "done"
    /\ attempts[1].reply = "404"
    /\ attempts[1].mark = "success"

\* The longest time from the first request of a task to the run deadline
\* that is looked at, in tenths of a second.
MaxRemaining == 2

\* The time slept by the task before its i-th attempt, in tenths of a second:
\* the least time that has passed since its first request, a request taking
\* no time.
RECURSIVE SleptBefore(_)
SleptBefore(i) ==
    IF i <= 1 THEN 0 ELSE SleptBefore(i - 1) + attempts[i - 1].slept

\* C12: whatever the run deadline d (counted from the first request of
\* post_transaction or health_check, which starts before it), the delay slept
\* after an attempt is at most the time that remains to d, and no further
\* attempt starts at or after d.
C12_NoRetryPastDeadline ==
    task \in {"post_transaction", "health_check"} =>
        \A d \in 1..MaxRemaining : \A i \in 1..Len(attempts) :
            /\ attempts[i].slept
                  <= IF d > SleptBefore(i) THEN d - SleptBefore(i) ELSE 0
            /\ i > 1 => SleptBefore(i) < d

\* The workers submitted to the pool.
Started ==
    {w \in Workers : pc[w] # "unused"}

\* C13: run_benchmark_test runs exactly num_users workers, all of them from
\* the start of the run, and computes the final metrics only after every one
\* of them has returned: from the summary on no worker is inside its loop or
\* its update block, and the counters of the results are the final counters.
C13_SummaryAfterAllWorkers ==
    script = "simple_benchmark" =>
        /\ Cardinality(Started) = num_users
        /\ main_pc \in {"summary", "returned", "raised"}
              => /\ \A w \in Started : pc[w] = "done"
                 /\ held = {}
        /\ main_pc = "returned"
              => /\ results.successful_requests = successful_requests
                 /\ results.failed_requests = failed_requests

\* run_benchmark_test returned after its two workers executed two operations
\* and returned.
C13_Witness ==
    /\ main_pc = "returned"
    /\ num_users = 2
    /\ ops = 2
    /\ \A w \in 1..2 : pc[w] = "done"

\* The operations of the run in which the target raised, once every worker
\* has returned: every operation executed either raised or appended its
\* latency (line 87; list.append loses nothing).
RaisedOperations ==
    ops - Len(latencies)

\* C14: an operation in which the target raises is recorded as exactly one
\* failure and its worker goes on: no worker ends anywhere but at the
\* deadline test, and when the run ends failed_requests is the number of
\* operations that raised.
C14_OneFailurePerRaisedOperation ==
    Finished => failed_requests = RaisedOperations

\* The rates of run_benchmark_test, kept in hundredths (1 is 100)
BenchRatesAreFractions ==
    main_pc = "returned"
        => /\ results.success_rate \in 0..100
           /\ results.error_rate \in 0..100
           /\ results.total_requests > 0
                 => results.success_rate + results.error_rate = 100

\* The rates of smoke_bench, kept as numerator and denominator
SmokeRatesAreFractions ==
    (smoke_pc = "done" /\ summary.status = "written")
        => LET s == summary.success_rate
               e == summary.error_rate
           IN  /\ 0 <= s[1] /\ s[1] <= s[2]
               /\ 0 <= e[1] /\ e[1] <= e[2]
               /\ ok + fail > 0 => s[1] * e[2] + e[1] * s[2] = s[2] * e[2]

\* C15: success_rate and error_rate of the summary are fractions between 0
\* and 1 that add up to 1 when an operation was counted, in the results of
\* run_benchmark_test and in the summary of smoke_bench.
C15_RatesAreFractions ==
    BenchRatesAreFractions /\ SmokeRatesAreFractions

\* C16: whatever the probes of on_start end in, on_start makes at most 3
\* probes, makes none after a probe answered with status 200, and returns:
\* it has returned exactly when a probe was answered with 200 or the third
\* probe was made, and it reports nothing but the exception of a third probe.
C16_WarmUpIsBestEffort ==
    task = "on_start" =>
        /\ Len(attempts) <= 3
        /\ \A i \in 1..Len(attempts) :
              /\ attempts[i].reply = "200" => i = Len(attempts)
              /\ attempts[i].mark \in {"none", "request_failure"}
              /\ attempts[i].mark = "request_failure" => i = 3
        /\ locust_pc \in {"retry_loop", "done"}
        /\ locust_pc = "done"
              <=> /\ attempts # <<>>
                  /\ \/ attempts[Len(attempts)].reply = "200"
                     \/ Len(attempts) = 3

\* on_start returned after three probes, none of them answered with 200.
C16_Witness ==
    /\ task = "on_start"
    /\ locust_pc = "done"
    /\ Len(attempts) = 3
    /\ attempts[1].reply = "exception"
    /\ attempts[2].reply = "other_status"
    /\ attempts[3].reply = "exception"

\* C17: an invalid configuration, num_users <= 0 or duration_seconds <= 0,
\* ends run_benchmark_test in an error before any worker is started: no
\* worker exists, no operation is executed and no summary is computed.
C17_InvalidConfigRejectedBeforeStart ==
    (script = "simple_benchmark" /\ (num_users <= 0 \/ duration_seconds <= 0))
        => /\ Started = {}
           /\ ops = 0
           /\ main_pc = "rejected"

\* C18: every poll of the exporter sets every one of the nine gauges, to 0
\* for a key that is absent or null and for every key when the file is missing
\* or is not valid JSON, and goes on to the next poll: main() never ends in
\* an exception.
C18_EveryPollSetsEveryGauge ==
    (script = "metrics_server" /\ summary_file.kind # "none") =>
        /\ exporter_pc = "poll"
        /\ set_gauges = Keys
        /\ summary_file.kind \in {"missing", "invalid_json"}
              => \A k \in Keys : gauges[k] = 0
        /\ summary_file.kind = "object"
              => \A k \in Keys :
                    Get(summary_file, k) \in {"absent", "null"} => gauges[k] = 0

\* C18 for the files that are missing, are not valid JSON, or hold an object
\* whose values are numbers, numeric strings or null
WellFormedPollSetsEveryGauge ==
    (/\ script = "metrics_server"
     /\ summary_file.kind \in {"missing", "invalid_json", "object"}
     /\ summary_file.value # "text")
        => /\ set_gauges = Keys
           /\ \A k \in Keys :
                 Get(load_summary(summary_file), k) \in {"absent", "null"}
                    => gauges[k] = 0

\* C19: during a run of run_benchmark_test no step makes successful_requests
\* or failed_requests smaller, so every value the progress monitor reads is at
\* least every value the counter held before.
C19_CountersNeverDecrease ==
    [][/\ successful_requests' >= successful_requests
       /\ failed_requests' >= failed_requests]_vars

\* C20: whatever the number of latencies recorded when the run ends, one
\* included, the percentile step of run_benchmark_test raises nothing: a run
\* that recorded a latency returns its results, and no run ends in the
\* StatisticsError of statistics.quantiles.
C20_PercentilesForEveryCount ==
    main_pc \in {"returned", "raised"} =>
        /\ Len(latencies) >= 1 => results.status = "returned"
        /\ results.status = "raised" => results.exception # "StatisticsError"

\* Every run ends: every worker of run_benchmark_test leaves its loop, the
\* monitor loop is left and run_benchmark_test is left, by return or by an
\* exception; smoke_bench leaves its loop.
EveryRunEnds ==
    /\ script = "simple_benchmark"
          => <>(/\ \A w \in Started : pc[w] = "done"
                /\ main_pc \in {"returned", "raised", "rejected"})
    /\ script = "smoke_bench" => <>(smoke_pc \in {"summary", "done"})

\* C21: when the clock keeps advancing and every operation and sleep
\* finishes, in every run with valid parameters every worker of
\* run_benchmark_test leaves its loop, the monitor loop is left and
\* run_benchmark_test returns; smoke_bench leaves its loop.
C21_EveryRunReturns ==
    /\ (script = "simple_benchmark" /\ num_users > 0 /\ duration_seconds > 0)
          => <>(/\ \A w \in Started : pc[w] = "done"
                /\ main_pc = "returned")
    /\ script = "smoke_bench" => <>(smoke_pc \in {"summary", "done"})

====
